---- MODULE Spec2Model ----
(***************************************************************************)
(* State-machine model of class Net (src/net.py): construction            *)
(* (_configure, _init_params, _init_shared_variables, graph set-up) and   *)
(* the compiled updater functions, which act on the shared variables      *)
(* (parameters, previous states, gradient accumulators, optimizer state). *)
(*                                                                         *)
(* Tensors are abstracted to integers: a Parameter is one integer, a      *)
(* Previous-State Variable is a sequence of batch rows, one integer each; *)
(* an input chunk is a sequence over time of sequences over the batch.    *)
(* A theano function applies all its updates simultaneously, every new    *)
(* value being computed from the values held before the call.             *)
(***************************************************************************)
EXTENDS Integers, Sequences, FiniteSets, TLC

\* ------------------------------------------------------------------ bounds
\* number of calls of compiled functions / methods explored after construction
MaxCalls == 3
\* longest input chunk (time steps)
MaxT == 2
\* the numbers a shared variable holds are kept in -Radius..Radius
Radius == 2
\* number of calls explored on the one object of the annealing specification
MaxAnnealCalls == 4

\* ------------------------------------------------------------- generic helpers
None == <<>>
Some(v) == <<v>>
IsNone(o) == o = <<>>
Val(o) == o[1]

NoPath == "<None>"

\* the value a shared variable keeps of a computed number (wraps around)
Store(x) == ((x + Radius) % (2 * Radius + 1)) - Radius

RECURSIVE SumSeq(_)
SumSeq(s) == IF s = <<>> THEN 0 ELSE s[1] + SumSeq(Tail(s))

Range(s) == { s[i] : i \in DOMAIN s }

Has(opts, k) == k \in DOMAIN opts

\* ------------------------------------------------------------------ names
\* A variable name pfx + layer + '_' + suffix is kept as its three parts, so
\* that slicing a name (k[len_pfx:], k[-4:], k[:-4] + 'init') is an operation
\* on the parts.
Key(pfx, layer, sfx) == [pfx |-> pfx, layer |-> layer, sfx |-> sfx]

\* k[len_pfx:]
StripPfx(k) == [k EXCEPT !.pfx = ""]
\* k[-4:] == 'init'
IsInitKey(k) == k.sfx = "init"
\* to_init = lambda k: k[:-4] + 'init'
to_init(k) == [k EXCEPT !.sfx = "init"]

\* self._pfx + self._options['unit_type'] + '_' + str(i)
UnitLayer(opts, i) == <<opts["unit_type"], i>>
FCOutput == <<"FC_output", 0>>
FCIdEmbedder == <<"FC_id_embedder", 0>>

\* add_param of a layer: the keys it declares, in order
LayerParamKeys(opts, pfx, layer, stateful) ==
    <<Key(pfx, layer, "W")>> \o
    (IF stateful /\ opts["learn_init_states"] THEN <<Key(pfx, layer, "init")>> ELSE <<>>)

RECURSIVE StackParamKeys(_, _, _)
StackParamKeys(opts, pfx, i) ==
    IF i >= opts["net_depth"] THEN <<>>
    ELSE LayerParamKeys(opts, pfx, UnitLayer(opts, i), TRUE) \o StackParamKeys(opts, pfx, i + 1)

\* keys of self._params in insertion order
DeclaredKeys(opts, pfx) ==
    (IF opts["learn_id_embedding"] THEN LayerParamKeys(opts, pfx, FCIdEmbedder, FALSE) ELSE <<>>)
    \o StackParamKeys(opts, pfx, 0)
    \o LayerParamKeys(opts, pfx, FCOutput, FALSE)

\* declared shape and initial value of a Parameter
DeclaredShape(opts, k) ==
    IF k.sfx = "init" THEN <<opts["net_width"]>>
    ELSE IF k.layer = FCOutput THEN <<opts["net_width"], opts["target_dim"]>>
    ELSE IF k.layer = FCIdEmbedder THEN <<opts["id_count"], opts["id_embedding_dim"]>>
    ELSE <<opts["net_width"], opts["net_width"]>>

DeclaredValue(k) == IF k.sfx = "init" THEN 0 ELSE 1

\* add_v_prev_state: keys of self._v_prev_states in insertion order
RECURSIVE PrevKeysFrom(_, _, _)
PrevKeysFrom(opts, pfx, i) ==
    IF i >= opts["net_depth"] THEN <<>>
    ELSE <<Key(pfx, UnitLayer(opts, i), "prev")>> \o PrevKeysFrom(opts, pfx, i + 1)

PrevKeys(opts, pfx) == PrevKeysFrom(opts, pfx, 0)

ZeroRows(n) == [b \in 1..n |-> 0]

\* ------------------------------------------------------------ option sets
\* An Option Set is a function from option names to values ('k in options'
\* is k \in DOMAIN options); the dimensions are those of the smallest
\* network the layers accept.
BaseOptions(lis, lcp, lie, force, update) ==
    [ learn_init_states  |-> lis,
      learn_clock_params |-> lcp,
      learn_id_embedding |-> lie,
      batch_size         |-> 2,
      net_depth          |-> 2,
      net_width          |-> 4,
      input_dim          |-> 3,
      target_dim         |-> 1,
      id_count           |-> 2,
      id_embedding_dim   |-> 2,
      unit_type          |-> "GRU",
      force_type         |-> force,
      update_type        |-> update ]

WithClip(opts, c) == ("grad_norm_clip" :> c) @@ opts

\* an option set with stateful optimizer plugins and gradient clipping
StatefulOptions == WithClip(BaseOptions(TRUE, FALSE, FALSE, "adadelta", "momentum"), 2)

\* one option set per combination of the three flags
FlagOptions(lis, lcp, lie) ==
    IF lis /\ ~lcp /\ ~lie THEN StatefulOptions ELSE BaseOptions(lis, lcp, lie, "vanilla", "sgd")

OptionSets == { FlagOptions(lis, lcp, lie) : lis \in BOOLEAN, lcp \in BOOLEAN, lie \in BOOLEAN }

\* what _init_params and the graph set-up read from self._options
RequiredKeys == DOMAIN BaseOptions(FALSE, FALSE, FALSE, "vanilla", "sgd")

\* ------------------------------------------------------------ file system
Paths == {"old", "run"}
FileNames == {"params", "tmp"}

\* fs.options[p]: content of p/options.pkl; fs.npz[<<p, n>>]: content of
\* p/n.npz, a function from names to arrays [shape, v]
EmptyFs == [ options |-> [p \in Paths |-> None],
             npz     |-> [f \in Paths \X FileNames |-> None] ]

Array(shape, v) == [shape |-> shape, v |-> v]

\* a saved archive holds the un-prefixed names
ArchiveOf(params) ==
    [ k \in { StripPfx(kk) : kk \in DOMAIN params } |->
        params[CHOOSE kk \in DOMAIN params : StripPfx(kk) = k] ]

\* ---------------------------------------------------------- optimizer plugins
\* eval(options['force_type'] + '_force') and eval(options['update_type'] +
\* '_update'): only the plugin contract is modelled. A stateless plugin
\* (vanilla, sgd) has an empty state list; a stateful one keeps one state per
\* gradient (force) or per parameter (update), initialised to zero.
ForceState0(opts, n) == IF opts["force_type"] = "vanilla" THEN <<>> ELSE [i \in 1..n |-> 0]
UpdateState0(opts, n) == IF opts["update_type"] = "sgd" THEN <<>> ELSE [i \in 1..n |-> 0]

ForceStateNew(opts, grads, f) ==
    IF opts["force_type"] = "vanilla" THEN <<>> ELSE [i \in DOMAIN grads |-> Store(f[i] + grads[i])]

Forces(opts, lr, grads, f) ==
    IF opts["force_type"] = "vanilla" THEN [i \in DOMAIN grads |-> 0 - lr * grads[i]]
    ELSE [i \in DOMAIN grads |-> 0 - lr * (grads[i] + f[i])]

UpdateStateNew(opts, forces, u) ==
    IF opts["update_type"] = "sgd" THEN <<>> ELSE [i \in DOMAIN forces |-> Store(u[i] + forces[i])]

ParamsNew(opts, pvals, forces, u) ==
    IF opts["update_type"] = "sgd" THEN [i \in DOMAIN pvals |-> Store(pvals[i] + forces[i])]
    ELSE [i \in DOMAIN pvals |-> Store(pvals[i] + u[i] + forces[i])]

\* _setup_param_updates_graph: the values the returned updates assign, from
\* the values held before the call
ParamUpdates(opts, lr, pvals, grads, f, u) ==
    [ f |-> ForceStateNew(opts, grads, f),
      u |-> UpdateStateNew(opts, Forces(opts, lr, grads, f), u),
      p |-> ParamsNew(opts, pvals, Forces(opts, lr, grads, f), u) ]

\* ------------------------------------------------------------ forward graph
\* A forward context: the Option Set, the prefix, the parameter values
\* (name -> integer), the previous states (name -> rows) and the fed inputs
\* [input, target, time, id_idx, last_tap, loss_tap].
Ctx(opts, pfx, pv, prev, inp) ==
    [opts |-> opts, pfx |-> pfx, pv |-> pv, prev |-> prev, inp |-> inp]

ChunkLen(inp) == Len(inp.input)

\* the identity embedding of sample b (FC_id_embedder on the one-hot index),
\* evaluated once and added to every layer's input
IdEmbedding(c, b) == c.pv[Key(c.pfx, FCIdEmbedder, "W")] * (1 + c.inp.id_idx[b])

\* cat: concatenation of the embedding onto a layer's input
Cat(c, x, b) == IF c.opts["learn_id_embedding"] THEN x + IdEmbedding(c, b) ELSE x

\* s_time_t if options['learn_clock_params'] else None
ClockTerm(c, t) == IF c.opts["learn_clock_params"] THEN c.inp.time[t] ELSE 0

\* the recurrence of a stateful layer for sample b: its states at the time
\* steps 1..t, from the layer's input sequence and its previous state
RECURSIVE Recurrence(_, _, _, _, _)
Recurrence(c, i, b, below, t) ==
    IF t = 0 THEN <<>>
    ELSE LET before == Recurrence(c, i, b, below, t - 1)
             carry  == IF t = 1 THEN c.prev[Key(c.pfx, UnitLayer(c.opts, i), "prev")][b]
                       ELSE before[t - 1]
         IN  Append(before,
                    c.pv[Key(c.pfx, UnitLayer(c.opts, i), "W")] * Cat(c, below[t], b)
                      + ClockTerm(c, t) + carry)

\* vertical stack: input -> layer[0] -> ... -> layer[i]; the states of
\* stateful layer i over the chunk for sample b
RECURSIVE LayerStates(_, _, _)
LayerStates(c, i, b) ==
    LET below == IF i = 0 THEN [ t \in 1..ChunkLen(c.inp) |-> c.inp.input[t][b] ]
                 ELSE LayerStates(c, i - 1, b)
    IN  Recurrence(c, i, b, below, ChunkLen(c.inp))

BatchOf(c) == DOMAIN c.inp.input[1]

\* the output of FC_output over the chunk for sample b
OutputColumn(c, b) ==
    LET top == LayerStates(c, c.opts["net_depth"] - 1, b) IN
    [ t \in 1..ChunkLen(c.inp) |-> c.pv[Key(c.pfx, FCOutput, "W")] * Cat(c, top[t], b) ]

\* s_outputs[D]: the output of FC_output, time-major
ForwardOutput(c) ==
    [ t \in 1..ChunkLen(c.inp) |-> [ b \in BatchOf(c) |-> OutputColumn(c, b)[t] ] ]

\* prev_state_updates: one (v_prev_state, new value at the tap) per stateful
\* layer; tap is the 0-based time index
PrevStateUpdates(c, tap) ==
    [ k \in DOMAIN c.prev |->
        [ b \in BatchOf(c) |-> Store(LayerStates(c, k.layer[2], b)[tap + 1]) ] ]

Square(x) == x * x

\* x[tap :] along the time axis
SliceFrom(x, tap) == [ j \in 1..(Len(x) - tap) |-> x[tap + j] ]

\* the squared errors of one sample over the time steps of its columns
SquaredErrors(output, target) ==
    SumSeq([ j \in DOMAIN output |-> Square(output[j] - target[j]) ])

\* MSE_loss(output, target) on one column over time per sample (sum of
\* squared errors)
MSE_loss(outputs, targets) ==
    SumSeq([ b \in DOMAIN outputs |-> SquaredErrors(outputs[b], targets[b]) ])

\* variant: a loss over every step of the chunk, the warm-up steps included
SetupLossGraphUnsliced(outputs, targets, loss_tap) == MSE_loss(outputs, targets)

\* MSE_loss(s_output_tbi[s_loss_tap :], s_target_tbi[s_loss_tap :])
SetupLossGraph(outputs, targets, loss_tap) ==
    MSE_loss([ b \in DOMAIN outputs |-> SliceFrom(outputs[b], loss_tap) ],
             [ b \in DOMAIN targets |-> SliceFrom(targets[b], loss_tap) ])

\* the output and the target of a chunk, one column over time per sample
OutputColumns(c) == [ b \in BatchOf(c) |-> OutputColumn(c, b) ]
TargetColumns(c) ==
    [ b \in BatchOf(c) |-> [ t \in 1..ChunkLen(c.inp) |-> c.inp.target[t][b] ] ]

\* self._port_o_loss
Loss(c) == SetupLossGraph(OutputColumns(c), TargetColumns(c), c.inp.loss_tap)

\* tt.grad of the loss wrt one parameter / one element of a previous state:
\* the loss is a quadratic in each of them, so the central difference is the
\* derivative
GradWrtParam(c, k) ==
    (Loss([c EXCEPT !.pv[k] = @ + 1]) - Loss([c EXCEPT !.pv[k] = @ - 1])) \div 2

GradWrtPrev(c, k) ==
    [ b \in DOMAIN c.prev[k] |->
        (Loss([c EXCEPT !.prev[k][b] = @ + 1]) - Loss([c EXCEPT !.prev[k][b] = @ - 1])) \div 2 ]

\* clip_norm(s_grad, options['grad_norm_clip'])
ClipScalar(g, n) == IF g > n THEN n ELSE IF g < 0 - n THEN 0 - n ELSE g
ClipRows(g, n) == [ b \in DOMAIN g |-> ClipScalar(g[b], n) ]

\* _setup_grad_updates_graph: the new values of the accumulators, aligned
\* by position with v_wrt
GradUpdates(c, wrt) ==
    [ i \in DOMAIN wrt |->
        IF Has(c.opts, "grad_norm_clip")
        THEN ClipScalar(GradWrtParam(c, wrt[i]), c.opts["grad_norm_clip"])
        ELSE Store(GradWrtParam(c, wrt[i])) ]

GradUpdatesForInit(c, wrt) ==
    [ i \in DOMAIN wrt |->
        IF Has(c.opts, "grad_norm_clip")
        THEN ClipRows(GradWrtPrev(c, wrt[i]), c.opts["grad_norm_clip"])
        ELSE [ b \in DOMAIN c.prev[wrt[i]] |-> Store(GradWrtPrev(c, wrt[i])[b]) ] ]

\* tt.mean(v, axis = 0)
MeanAxis0(rows) == SumSeq(rows) \div Len(rows)

\* ------------------------------------------------------------ construction
VARIABLES
    status,            \* "ok" (constructed) or "failed" (the constructor raised)
    ctor,              \* the arguments and the error of the constructor call
    events,            \* what construction did, in order
    is_training,       \* self._is_training
    options,           \* self._options
    save_to,           \* self._save_to
    pfx,               \* self._pfx
    params,            \* self._params: host copies, name -> array
    v_params,          \* self._v_params: shared variables, name -> array
    v_prev_states,     \* self._v_prev_states: name -> rows
    v_grads,           \* self._v_grads, aligned with the non-init parameters
    v_grads_for_init,  \* self._v_grads_for_init, aligned with the previous states
    v_optim,           \* the optimizer plugins' state, [f, u, f_init, u_init]
    fs,                \* the files
    last,              \* the last call: [op, inp, lr, name, res, ret, before]
    ncalls,            \* number of calls made
    budget,            \* number of calls explored on this object
    peer               \* another inference instance of the same process, or NoPeer

vars == << status, ctor, events, is_training, options, save_to, pfx, params, v_params,
           v_prev_states, v_grads, v_grads_for_init, v_optim, fs, last, ncalls, budget,
           peer >>

NoPeer == <<>>

NoOptim == [f |-> <<>>, u |-> <<>>, f_init |-> <<>>, u_init |-> <<>>]

\* a Net object under construction
Blank(fs0) ==
    [ err |-> "ok", events |-> <<>>, fs |-> fs0, is_training |-> FALSE, options |-> <<>>,
      save_to |-> NoPath, pfx |-> "", params |-> <<>>, v_params |-> <<>>,
      v_prev_states |-> <<>>, v_grads |-> <<>>, v_grads_for_init |-> <<>>,
      v_optim |-> NoOptim ]

Raise(c, e) == [c EXCEPT !.err = e]
Did(c, ev) == [c EXCEPT !.events = Append(@, ev)]

\* variant: a resume check that accepts any loaded options
ResumeCheckSkipped(given, loaded) == TRUE

\* the resume check of _configure: the loaded options must equal the given ones
ResumeCheck(given, loaded) == given = loaded

\* variant: an inference configuration that keeps the loaded batch size when
\* the caller's options name none
ConfigureLenient(c, oarg, sv, ld, rnd) ==
    IF sv # NoPath
    THEN LET c1 == [c EXCEPT !.is_training = TRUE] IN
         IF IsNone(oarg) THEN Raise(c1, "AssertionError")
         ELSE LET c2 == [c1 EXCEPT !.options = Val(oarg), !.save_to = sv, !.pfx = ""] IN
              IF ld # NoPath /\ IsNone(c2.fs.options[ld]) THEN Raise(c2, "IOError")
              ELSE IF ld # NoPath /\ ~ResumeCheck(c2.options, Val(c2.fs.options[ld]))
                   THEN Raise(Did(c2, "read_options"), "AssertionError")
              ELSE LET c3 == IF ld # NoPath THEN Did(c2, "read_options") ELSE c2
                   IN  Did([c3 EXCEPT !.fs.options[sv] = Some(c3.options)], "write_options")
    ELSE LET c1 == [c EXCEPT !.is_training = FALSE, !.pfx = rnd] IN
         IF ld = NoPath THEN Raise(c1, "AssertionError")
         ELSE IF IsNone(c1.fs.options[ld]) THEN Raise(c1, "IOError")
         ELSE LET c2 == Did([c1 EXCEPT !.options = Val(c1.fs.options[ld])], "read_options") IN
              IF IsNone(oarg) THEN c2
              ELSE IF ~Has(Val(oarg), "batch_size") THEN c2
              ELSE [c2 EXCEPT !.options = ("batch_size" :> Val(oarg)["batch_size"]) @@ @]

\* variant: an inference configuration that takes every key the caller gives
ConfigureOverrideAll(c, oarg, sv, ld, rnd) ==
    IF sv # NoPath
    THEN LET c1 == [c EXCEPT !.is_training = TRUE] IN
         IF IsNone(oarg) THEN Raise(c1, "AssertionError")
         ELSE LET c2 == [c1 EXCEPT !.options = Val(oarg), !.save_to = sv, !.pfx = ""] IN
              IF ld # NoPath /\ IsNone(c2.fs.options[ld]) THEN Raise(c2, "IOError")
              ELSE IF ld # NoPath /\ ~ResumeCheck(c2.options, Val(c2.fs.options[ld]))
                   THEN Raise(Did(c2, "read_options"), "AssertionError")
              ELSE LET c3 == IF ld # NoPath THEN Did(c2, "read_options") ELSE c2
                   IN  Did([c3 EXCEPT !.fs.options[sv] = Some(c3.options)], "write_options")
    ELSE LET c1 == [c EXCEPT !.is_training = FALSE, !.pfx = rnd] IN
         IF ld = NoPath THEN Raise(c1, "AssertionError")
         ELSE IF IsNone(c1.fs.options[ld]) THEN Raise(c1, "IOError")
         ELSE LET c2 == Did([c1 EXCEPT !.options = Val(c1.fs.options[ld])], "read_options") IN
              IF IsNone(oarg) THEN Raise(c2, "TypeError")
              ELSE IF ~Has(Val(oarg), "batch_size") THEN Raise(c2, "AssertionError")
              ELSE [c2 EXCEPT !.options = Val(oarg) @@ @]

\* variant: an inference configuration that names its variables without a
\* prefix, as training does
ConfigureNoPrefix(c, oarg, sv, ld, rnd) ==
    IF sv # NoPath
    THEN LET c1 == [c EXCEPT !.is_training = TRUE] IN
         IF IsNone(oarg) THEN Raise(c1, "AssertionError")
         ELSE LET c2 == [c1 EXCEPT !.options = Val(oarg), !.save_to = sv, !.pfx = ""] IN
              IF ld # NoPath /\ IsNone(c2.fs.options[ld]) THEN Raise(c2, "IOError")
              ELSE IF ld # NoPath /\ ~ResumeCheck(c2.options, Val(c2.fs.options[ld]))
                   THEN Raise(Did(c2, "read_options"), "AssertionError")
              ELSE LET c3 == IF ld # NoPath THEN Did(c2, "read_options") ELSE c2
                   IN  Did([c3 EXCEPT !.fs.options[sv] = Some(c3.options)], "write_options")
    ELSE LET c1 == [c EXCEPT !.is_training = FALSE, !.pfx = ""] IN
         IF ld = NoPath THEN Raise(c1, "AssertionError")
         ELSE IF IsNone(c1.fs.options[ld]) THEN Raise(c1, "IOError")
         ELSE LET c2 == Did([c1 EXCEPT !.options = Val(c1.fs.options[ld])], "read_options") IN
              IF IsNone(oarg) THEN Raise(c2, "TypeError")
              ELSE IF ~Has(Val(oarg), "batch_size") THEN Raise(c2, "AssertionError")
              ELSE [c2 EXCEPT !.options = ("batch_size" :> Val(oarg)["batch_size"]) @@ @]

\* variant: a training configuration that writes the options before it
\* compares them with the persisted ones
ConfigureWriteFirst(c, oarg, sv, ld, rnd) ==
    IF sv # NoPath
    THEN LET c1 == [c EXCEPT !.is_training = TRUE] IN
         IF IsNone(oarg) THEN Raise(c1, "AssertionError")
         ELSE LET c2 == Did([c1 EXCEPT !.options = Val(oarg), !.save_to = sv, !.pfx = "",
                                       !.fs.options[sv] = Some(Val(oarg))], "write_options") IN
              IF ld # NoPath /\ IsNone(c2.fs.options[ld]) THEN Raise(c2, "IOError")
              ELSE IF ld # NoPath /\ ~ResumeCheck(c2.options, Val(c2.fs.options[ld]))
                   THEN Raise(Did(c2, "read_options"), "AssertionError")
              ELSE IF ld # NoPath THEN Did(c2, "read_options") ELSE c2
    ELSE LET c1 == [c EXCEPT !.is_training = FALSE, !.pfx = rnd] IN
         IF ld = NoPath THEN Raise(c1, "AssertionError")
         ELSE IF IsNone(c1.fs.options[ld]) THEN Raise(c1, "IOError")
         ELSE LET c2 == Did([c1 EXCEPT !.options = Val(c1.fs.options[ld])], "read_options") IN
              IF IsNone(oarg) THEN Raise(c2, "TypeError")
              ELSE IF ~Has(Val(oarg), "batch_size") THEN Raise(c2, "AssertionError")
              ELSE [c2 EXCEPT !.options = ("batch_size" :> Val(oarg)["batch_size"]) @@ @]

\* Net._configure; oarg is None or Some(options), rnd is get_random_string()
Configure(c, oarg, sv, ld, rnd) ==
    IF sv # NoPath
    THEN LET c1 == [c EXCEPT !.is_training = TRUE] IN
         IF IsNone(oarg) THEN Raise(c1, "AssertionError")
         ELSE LET c2 == [c1 EXCEPT !.options = Val(oarg), !.save_to = sv, !.pfx = ""] IN
              IF ld # NoPath /\ IsNone(c2.fs.options[ld]) THEN Raise(c2, "IOError")
              ELSE IF ld # NoPath /\ ~ResumeCheck(c2.options, Val(c2.fs.options[ld]))
                   THEN Raise(Did(c2, "read_options"), "AssertionError")
              ELSE LET c3 == IF ld # NoPath THEN Did(c2, "read_options") ELSE c2
                   IN  Did([c3 EXCEPT !.fs.options[sv] = Some(c3.options)], "write_options")
    ELSE LET c1 == [c EXCEPT !.is_training = FALSE, !.pfx = rnd] IN
         IF ld = NoPath THEN Raise(c1, "AssertionError")
         ELSE IF IsNone(c1.fs.options[ld]) THEN Raise(c1, "IOError")
         ELSE LET c2 == Did([c1 EXCEPT !.options = Val(c1.fs.options[ld])], "read_options") IN
              IF IsNone(oarg) THEN Raise(c2, "TypeError")
              ELSE IF ~Has(Val(oarg), "batch_size") THEN Raise(c2, "AssertionError")
              ELSE [c2 EXCEPT !.options = ("batch_size" :> Val(oarg)["batch_size"]) @@ @]

\* the loop of _init_params over the archive: every declared key, with the
\* prefix stripped, must be a key of the archive
ArchiveHasKeys(keys, archive) == \A i \in DOMAIN keys : StripPfx(keys[i]) \in DOMAIN archive

\* Net._init_params
InitParams(c, ld) ==
    IF ~(RequiredKeys \subseteq DOMAIN c.options) THEN Raise(c, "KeyError")
    ELSE IF ~(c.options["net_depth"] > 0) THEN Raise(c, "AssertionError")
    ELSE LET keys == DeclaredKeys(c.options, c.pfx)
             decl == [ k \in Range(keys) |-> Array(DeclaredShape(c.options, k), DeclaredValue(k)) ]
             c1   == Did([c EXCEPT !.params = decl], "instantiate")
         IN  IF ld = NoPath THEN c1
             ELSE IF IsNone(c1.fs.npz[<<ld, "params">>]) THEN Raise(c1, "IOError")
             ELSE LET archive == Val(c1.fs.npz[<<ld, "params">>])
                      c2 == Did(c1, "read_archive")
                  IN  IF ~ArchiveHasKeys(keys, archive) THEN Raise(c2, "KeyError")
                      ELSE [c2 EXCEPT !.params = [ k \in Range(keys) |-> archive[StripPfx(k)] ]]

\* the names of self._v_params_wo_init and self._v_params_for_init, in order
WoInitKeys(opts, p) == SelectSeq(DeclaredKeys(opts, p), LAMBDA k : ~IsInitKey(k))
ForInitKeys(opts, p) == SelectSeq(DeclaredKeys(opts, p), LAMBDA k : IsInitKey(k))

\* variant: accumulators created as copies of the values (no "* 0.")
InitSharedVariablesCopied(c) ==
    LET prevs == PrevKeys(c.options, c.pfx)
        c1 == [c EXCEPT !.v_params = c.params,
                        !.v_prev_states = [ k \in Range(prevs) |-> ZeroRows(c.options["batch_size"]) ]]
        c2 == IF c.is_training
              THEN [c1 EXCEPT !.v_grads = [ i \in DOMAIN WoInitKeys(c.options, c.pfx) |->
                                              c.params[WoInitKeys(c.options, c.pfx)[i]].v ],
                              !.v_grads_for_init =
                                  IF c.options["learn_init_states"]
                                  THEN [ i \in DOMAIN prevs |-> ZeroRows(c.options["batch_size"]) ]
                                  ELSE <<>>]
              ELSE c1
    IN  Did(c2, "shared")

\* Net._init_shared_variables
InitSharedVariables(c) ==
    LET prevs == PrevKeys(c.options, c.pfx)
        c1 == [c EXCEPT !.v_params = c.params,
                        !.v_prev_states = [ k \in Range(prevs) |-> ZeroRows(c.options["batch_size"]) ]]
        c2 == IF c.is_training
              THEN [c1 EXCEPT !.v_grads = [ i \in DOMAIN WoInitKeys(c.options, c.pfx) |-> 0 ],
                              !.v_grads_for_init =
                                  IF c.options["learn_init_states"]
                                  THEN [ i \in DOMAIN prevs |-> ZeroRows(c.options["batch_size"]) ]
                                  ELSE <<>>]
              ELSE c1
    IN  Did(c2, "shared")

\* the optimizer state the two calls of _setup_param_updates_graph create,
\* which is also what _optim_state_inits assigns
OptimStateInits(opts, p) ==
    [ f |-> ForceState0(opts, Len(WoInitKeys(opts, p))),
      u |-> UpdateState0(opts, Len(WoInitKeys(opts, p))),
      f_init |-> IF opts["learn_init_states"] THEN ForceState0(opts, Len(ForInitKeys(opts, p))) ELSE <<>>,
      u_init |-> IF opts["learn_init_states"] THEN UpdateState0(opts, Len(ForInitKeys(opts, p))) ELSE <<>> ]

\* Net._setup_training_graph / Net._setup_inference_graph
SetupGraph(c) ==
    Did(IF c.is_training THEN [c EXCEPT !.v_optim = OptimStateInits(c.options, c.pfx)] ELSE c,
        "graph")

\* Net.__init__
Construct(fs0, oarg, sv, ld, rnd) ==
    LET c1 == Configure(Blank(fs0), oarg, sv, ld, rnd)
        c2 == IF c1.err = "ok" THEN InitParams(c1, ld) ELSE c1
        c3 == IF c2.err = "ok" THEN InitSharedVariables(c2) ELSE c2
    IN  IF c3.err = "ok" THEN SetupGraph(c3) ELSE c3

\* the call record before any call
NoCall ==
    [op |-> "none", inp |-> <<>>, lr |-> 0, name |-> "", res |-> "ok", ret |-> <<>>,
     before |-> "none"]

\* the state left by a constructor call: an object, or only the files it
\* touched when it raised
Constructed(c, oarg, sv, ld) ==
    /\ status = IF c.err = "ok" THEN "ok" ELSE "failed"
    /\ ctor = [options |-> oarg, save_to |-> sv, load_from |-> ld, err |-> c.err]
    /\ events = c.events
    /\ fs = c.fs
    /\ LET o == IF c.err = "ok" THEN c ELSE Blank(c.fs) IN
       /\ is_training = o.is_training
       /\ options = o.options
       /\ save_to = o.save_to
       /\ pfx = o.pfx
       /\ params = o.params
       /\ v_params = o.v_params
       /\ v_prev_states = o.v_prev_states
       /\ v_grads = o.v_grads
       /\ v_grads_for_init = o.v_grads_for_init
       /\ v_optim = o.v_optim
    /\ last = NoCall
    /\ ncalls = 0

\* ------------------------------------------------------------ initial states
Prefixes == {"r1_", "r2_"}

\* parameter archives as a training run leaves them under a path
TrainedValue(k) == IF k.sfx = "init" THEN 1 ELSE 2

GoodArchive(o) ==
    [ k \in Range(DeclaredKeys(o, "")) |-> Array(DeclaredShape(o, k), TrainedValue(k)) ]

\* an archive without the entry of FC_output
ShortArchive(o) ==
    [ k \in Range(DeclaredKeys(o, "")) \ {Key("", FCOutput, "W")} |-> GoodArchive(o)[k] ]

\* an archive whose FC_output array has another shape
MisshapenArchive(o) ==
    [GoodArchive(o) EXCEPT ![Key("", FCOutput, "W")] = Array(<<o["net_width"] + 1, o["target_dim"]>>, 2)]

OldRun(o, archive) ==
    [EmptyFs EXCEPT !.options["old"] = Some(o), !.npz[<<"old", "params">>] = archive]

\* the option set the damaged archives were saved with
ProbeOptions == StatefulOptions

FileSystems ==
    {EmptyFs}
    \cup { OldRun(o, Some(GoodArchive(o))) : o \in OptionSets }
    \cup { OldRun(ProbeOptions, a) :
             a \in {None, Some(ShortArchive(ProbeOptions)), Some(MisshapenArchive(ProbeOptions))} }

\* what a caller passes as options
OptionArgs ==
    {None} \cup { Some(o) : o \in OptionSets }
    \cup { Some([batch_size |-> 1]), Some([batch_size |-> 1, net_depth |-> 1]),
           Some([net_depth |-> 1]) }

\* the old runs a training start resumes
ResumableFs ==
    { OldRun(ProbeOptions, a) :
        a \in {None, Some(ShortArchive(ProbeOptions)), Some(GoodArchive(ProbeOptions))} }

\* the constructor calls explored: a fresh training start on empty files, a
\* resumed one and an inference one on the files of an old run
CtorCalls ==
    { [fs |-> EmptyFs, options |-> oa, save_to |-> "run", load_from |-> NoPath, rnd |-> "r1_"] :
        oa \in OptionArgs }
    \cup { [fs |-> f, options |-> oa, save_to |-> "run", load_from |-> "old", rnd |-> "r1_"] :
             f \in ResumableFs, oa \in OptionArgs }
    \cup { [fs |-> f, options |-> oa, save_to |-> NoPath, load_from |-> "old", rnd |-> r] :
             f \in FileSystems \ {EmptyFs}, oa \in {None, Some([batch_size |-> 1])},
             r \in Prefixes }
    \cup { [fs |-> OldRun(ProbeOptions, Some(GoodArchive(ProbeOptions))), options |-> oa,
            save_to |-> NoPath, load_from |-> ld, rnd |-> "r1_"] :
             oa \in OptionArgs \ { Some(o) : o \in OptionSets }, ld \in {NoPath, "old"} }

Init ==
    /\ \E a \in CtorCalls :
          Constructed(Construct(a.fs, a.options, a.save_to, a.load_from, a.rnd),
                      a.options, a.save_to, a.load_from)
    /\ budget = MaxCalls
    /\ peer = NoPeer

\* ------------------------------------------------------------ fed inputs
\* chunks of T time steps (one step, or MaxT steps) for a batch of n samples; the samples differ, the
\* taps are 0-based time indices (the state is tapped at the last step and
\* the loss counts every step, or the other way round)
Chunk(n, T, last_tap, loss_tap) ==
    [ input    |-> [ t \in 1..T |-> [ b \in 1..n |-> (t + b) % 2 ] ],
      target   |-> [ t \in 1..T |-> [ b \in 1..n |-> t % 2 ] ],
      time     |-> [ t \in 1..T |-> t ],
      id_idx   |-> [ b \in 1..n |-> b % 2 ],
      last_tap |-> last_tap,
      loss_tap |-> loss_tap ]

Chunks(n) ==
    { Chunk(n, T, T - 1, 0) : T \in {1, MaxT} } \cup { Chunk(n, T, 0, T - 1) : T \in {1, MaxT} }

LearningRates == {1}

NoName == "<None>"
NameArgs == {NoName, "tmp"}

\* ------------------------------------------------------------ compilation
\* the ports the compiled graph consumes (_setup_forward_graph, _setup_loss_graph)
UsedPorts(opts, training) ==
    {"input"}
    \cup (IF training THEN {"target", "last_tap", "loss_tap"} ELSE {})
    \cup (IF opts["learn_clock_params"] THEN {"time"} ELSE {})
    \cup (IF opts["learn_id_embedding"] THEN {"id_idx"} ELSE {})

\* inputs = [...] of the forward functions
ForwardPorts(training) ==
    IF training THEN {"input", "target", "time", "id_idx", "last_tap", "loss_tap"}
    ELSE {"input", "time", "id_idx"}

\* on_unused_input = 'raise' if learn_clock_params or learn_id_embedding else 'ignore'
OnUnusedInput(opts) ==
    IF opts["learn_clock_params"] \/ opts["learn_id_embedding"] THEN "raise" ELSE "ignore"

\* th.function: an input that is not part of the graph is an error under 'raise'
ThFunction(inputs, used, on_unused_input) ==
    IF on_unused_input = "raise" /\ inputs \ used # {} THEN "UnusedInputError" ELSE "ok"

CompileForward(opts, training) ==
    ThFunction(ForwardPorts(training), UsedPorts(opts, training), OnUnusedInput(opts))

\* ------------------------------------------------------------ calls
Live == status = "ok" /\ ncalls < budget

\* the record of a call; before names the call made before it ("raised"
\* when that one raised)
Call(op, inp, lr, name, res, ret) ==
    [op |-> op, inp |-> inp, lr |-> lr, name |-> name, res |-> res, ret |-> ret,
     before |-> IF last.res = "ok" THEN last.op ELSE "raised"]

Fixed == UNCHANGED << status, ctor, events, is_training, options, save_to, pfx, budget, peer >>

\* the shared variables a compiled function may update
Shared ==
    [ v_params |-> v_params, v_prev_states |-> v_prev_states, v_grads |-> v_grads,
      v_grads_for_init |-> v_grads_for_init, v_optim |-> v_optim ]

\* a call that raised: nothing but the call record changes
Raised(op, inp, lr, name, e) ==
    /\ last' = Call(op, inp, lr, name, e, <<>>)
    /\ ncalls' = ncalls + 1
    /\ Fixed
    /\ UNCHANGED << params, v_params, v_prev_states, v_grads, v_grads_for_init, v_optim, fs >>

\* a call of a compiled function that returned ret and applied the updates u
Returned(op, inp, lr, ret, u) ==
    /\ v_params' = u.v_params
    /\ v_prev_states' = u.v_prev_states
    /\ v_grads' = u.v_grads
    /\ v_grads_for_init' = u.v_grads_for_init
    /\ v_optim' = u.v_optim
    /\ last' = Call(op, inp, lr, "", "ok", ret)
    /\ ncalls' = ncalls + 1
    /\ Fixed
    /\ UNCHANGED << params, fs >>

\* assert self._is_training
AssertTraining == is_training

\* variant: the init-state functions guarded by the mode alone
AssertLearnInitStatesModeOnly == is_training

\* assert self._is_training and self._options['learn_init_states']
AssertLearnInitStates == is_training /\ options["learn_init_states"]

\* the values of the shared parameters
PV == [ k \in DOMAIN v_params |-> v_params[k].v ]

\* the context of a forward call on the current shared variables
Now(inp) == Ctx(options, pfx, PV, v_prev_states, inp)

\* variant: the tap fixed at the first step in inference
LastTapFirst(inp) == IF is_training THEN inp.last_tap ELSE 0

\* s_last_tap: the port in training, the last step in inference
LastTap(inp) == IF is_training THEN inp.last_tap ELSE ChunkLen(inp) - 1

\* outputs = [...] of a forward function
ForwardReturn(inp) == IF is_training THEN <<Loss(Now(inp))>> ELSE ForwardOutput(Now(inp))

\* variant: gradients added to the accumulators instead of replacing them
grad_updates_accumulated(inp) ==
    [ i \in DOMAIN v_grads |->
        Store(v_grads[i] + GradUpdates(Now(inp), WoInitKeys(options, pfx))[i]) ]

\* variant: init-state gradients taken at the previous states the call writes
grad_updates_for_init_late(inp) ==
    GradUpdatesForInit(Ctx(options, pfx, PV, PrevStateUpdates(Now(inp), LastTap(inp)), inp),
                       PrevKeys(options, pfx))

\* self._prev_state_updates, self._grad_updates, self._grad_updates_for_init:
\* the new values, all from the values held before the call
prev_state_updates(inp) == PrevStateUpdates(Now(inp), LastTap(inp))
grad_updates(inp) == GradUpdates(Now(inp), WoInitKeys(options, pfx))
grad_updates_for_init(inp) == GradUpdatesForInit(Now(inp), PrevKeys(options, pfx))

\* variant: a reset that ignores learn_init_states and always writes zeros
initialize_states_updates_zeros ==
    [Shared EXCEPT !.v_prev_states =
        [ k \in DOMAIN v_prev_states |-> [ b \in DOMAIN v_prev_states[k] |-> 0 ] ]]

\* updates of compile_f_initialize_states
initialize_states_updates ==
    [Shared EXCEPT !.v_prev_states =
        IF ~options["learn_init_states"]
        THEN [ k \in DOMAIN v_prev_states |-> [ b \in DOMAIN v_prev_states[k] |-> 0 ] ]
        ELSE [ k \in DOMAIN v_prev_states |->
                 [ b \in 1..options["batch_size"] |-> v_params[to_init(k)].v ] ]]

\* compile_f_initialize_states and a call of the function
f_initialize_states ==
    /\ Live
    /\ Returned("initialize_states", <<>>, 0, <<>>, initialize_states_updates)

\* variant: a forward function that also writes the gradient accumulators
fwd_propagate_updates_with_grads(inp) ==
    [Shared EXCEPT !.v_prev_states = PrevStateUpdates(Now(inp), LastTap(inp)),
                   !.v_grads = IF is_training
                               THEN GradUpdates(Now(inp), WoInitKeys(options, pfx))
                               ELSE v_grads]

\* updates = self._prev_state_updates
fwd_propagate_updates(inp) ==
    [Shared EXCEPT !.v_prev_states = prev_state_updates(inp)]

\* compile_f_fwd_propagate and a call of the function
f_fwd_propagate ==
    /\ Live
    /\ \E inp \in Chunks(options["batch_size"]) :
         IF CompileForward(options, is_training) # "ok"
         THEN Raised("fwd_propagate", inp, 0, "", CompileForward(options, is_training))
         ELSE Returned("fwd_propagate", inp, 0, ForwardReturn(inp), fwd_propagate_updates(inp))

\* updates = self._grad_updates + self._prev_state_updates
fwd_bwd_propagate_updates(inp) ==
    [Shared EXCEPT !.v_grads = grad_updates(inp),
                   !.v_prev_states = prev_state_updates(inp)]

\* compile_f_fwd_bwd_propagate and a call of the function
f_fwd_bwd_propagate ==
    /\ Live
    /\ \E inp \in Chunks(options["batch_size"]) :
         IF ~AssertTraining
         THEN Raised("fwd_bwd_propagate", inp, 0, "", "AssertionError")
         ELSE IF CompileForward(options, is_training) # "ok"
         THEN Raised("fwd_bwd_propagate", inp, 0, "", CompileForward(options, is_training))
         ELSE Returned("fwd_bwd_propagate", inp, 0, ForwardReturn(inp),
                       fwd_bwd_propagate_updates(inp))

\* updates = self._grad_updates + self._prev_state_updates + self._grad_updates_for_init
fwd_bwd_for_init_updates(inp) ==
    [Shared EXCEPT !.v_grads = grad_updates(inp),
                   !.v_prev_states = prev_state_updates(inp),
                   !.v_grads_for_init = grad_updates_for_init(inp)]

\* compile_f_fwd_bwd_for_init and a call of the function
f_fwd_bwd_for_init ==
    /\ Live
    /\ \E inp \in Chunks(options["batch_size"]) :
         IF ~AssertLearnInitStates
         THEN Raised("fwd_bwd_for_init", inp, 0, "", "AssertionError")
         ELSE IF CompileForward(options, is_training) # "ok"
         THEN Raised("fwd_bwd_for_init", inp, 0, "", CompileForward(options, is_training))
         ELSE Returned("fwd_bwd_for_init", inp, 0, ForwardReturn(inp),
                       fwd_bwd_for_init_updates(inp))

\* the values of a list of shared parameters
ValuesOf(keys) == [ i \in DOMAIN keys |-> v_params[keys[i]].v ]

\* v_params with the listed parameters set to new values
WithValues(keys, vals) ==
    [ k \in DOMAIN v_params |->
        IF \E i \in DOMAIN keys : keys[i] = k
        THEN [v_params[k] EXCEPT !.v = vals[CHOOSE i \in DOMAIN keys : keys[i] = k]]
        ELSE v_params[k] ]

\* self._param_updates: v_params = self._v_params_wo_init.values(), v_grads = self._v_grads
param_updates(lr) ==
    ParamUpdates(options, lr, ValuesOf(WoInitKeys(options, pfx)), v_grads, v_optim.f, v_optim.u)

\* s_grads_for_init_flattened
grads_for_init_flattened == [ i \in DOMAIN v_grads_for_init |-> MeanAxis0(v_grads_for_init[i]) ]

\* variant: the init-state update fed from the first accumulators
param_updates_for_init_first(lr) ==
    ParamUpdates(options, lr, ValuesOf(ForInitKeys(options, pfx)),
                 [ i \in DOMAIN v_grads_for_init |-> v_grads[i] ],
                 v_optim.f_init, v_optim.u_init)

\* self._param_updates_for_init: v_params = self._v_params_for_init.values(),
\* v_grads = s_grads_for_init_flattened
param_updates_for_init(lr) ==
    ParamUpdates(options, lr, ValuesOf(ForInitKeys(options, pfx)), grads_for_init_flattened,
                 v_optim.f_init, v_optim.u_init)

\* variant: a parameter update that zeroes the accumulators it consumed
update_v_params_updates_zeroing(lr) ==
    [Shared EXCEPT !.v_params = WithValues(WoInitKeys(options, pfx), param_updates(lr).p),
                   !.v_optim.f = param_updates(lr).f,
                   !.v_optim.u = param_updates(lr).u,
                   !.v_grads = [ i \in DOMAIN v_grads |-> 0 ]]

\* updates = self._param_updates
update_v_params_updates(lr) ==
    [Shared EXCEPT !.v_params = WithValues(WoInitKeys(options, pfx), param_updates(lr).p),
                   !.v_optim.f = param_updates(lr).f,
                   !.v_optim.u = param_updates(lr).u]

\* compile_f_update_v_params and a call of the function
f_update_v_params ==
    /\ Live
    /\ \E lr \in LearningRates :
         IF ~AssertTraining
         THEN Raised("update_v_params", <<>>, lr, "", "AssertionError")
         ELSE Returned("update_v_params", <<>>, lr, <<>>, update_v_params_updates(lr))

\* updates = self._param_updates_for_init
update_init_states_updates(lr) ==
    [Shared EXCEPT !.v_params = WithValues(ForInitKeys(options, pfx), param_updates_for_init(lr).p),
                   !.v_optim.f_init = param_updates_for_init(lr).f,
                   !.v_optim.u_init = param_updates_for_init(lr).u]

\* compile_f_update_init_states and a call of the function
f_update_init_states ==
    /\ Live
    /\ \E lr \in LearningRates :
         IF ~AssertLearnInitStates
         THEN Raised("update_init_states", <<>>, lr, "", "AssertionError")
         ELSE Returned("update_init_states", <<>>, lr, <<>>, update_init_states_updates(lr))

\* variant: a reset that leaves out the optimizer state of the init-state path
initialize_optimizer_updates_main_only ==
    [Shared EXCEPT !.v_optim = [OptimStateInits(options, pfx) EXCEPT !.f_init = v_optim.f_init,
                                                                      !.u_init = v_optim.u_init]]

\* updates = self._optim_state_inits
initialize_optimizer_updates == [Shared EXCEPT !.v_optim = OptimStateInits(options, pfx)]

\* compile_f_initialize_optimizer and a call of the function
f_initialize_optimizer ==
    /\ Live
    /\ IF ~AssertTraining
       THEN Raised("initialize_optimizer", <<>>, 0, "", "AssertionError")
       ELSE Returned("initialize_optimizer", <<>>, 0, <<>>, initialize_optimizer_updates)

\* ------------------------------------------------------------ methods
\* if name is None: name = 'params'
FileName(name) == IF name = NoName THEN "params" ELSE name

\* a method call that returned, having changed the host copies, the shared
\* parameters or the files
Done(op, name, ret) ==
    /\ last' = Call(op, <<>>, 0, name, "ok", ret)
    /\ ncalls' = ncalls + 1
    /\ Fixed
    /\ UNCHANGED << v_prev_states, v_grads, v_grads_for_init, v_optim >>

\* variant: a save that writes the host copies without pulling the shared values
save_v_params_to_workspace_stale ==
    /\ Live
    /\ \E name \in NameArgs :
         IF ~AssertTraining
         THEN Raised("save_v_params_to_workspace", <<>>, 0, name, "AssertionError")
         ELSE /\ params' = params
              /\ fs' = [fs EXCEPT !.npz[<<save_to, FileName(name)>>] = Some(ArchiveOf(params))]
              /\ UNCHANGED v_params
              /\ Done("save_v_params_to_workspace", name, <<>>)

\* Net.save_v_params_to_workspace
save_v_params_to_workspace ==
    /\ Live
    /\ \E name \in NameArgs :
         IF ~AssertTraining
         THEN Raised("save_v_params_to_workspace", <<>>, 0, name, "AssertionError")
         ELSE /\ params' = [ k \in DOMAIN v_params |-> v_params[k] ]
              /\ fs' = [fs EXCEPT !.npz[<<save_to, FileName(name)>>] = Some(ArchiveOf(params'))]
              /\ UNCHANGED v_params
              /\ Done("save_v_params_to_workspace", name, <<>>)

\* Net.load_v_params_from_workspace
load_v_params_from_workspace ==
    /\ Live
    /\ \E name \in NameArgs :
         IF ~AssertTraining
         THEN Raised("load_v_params_from_workspace", <<>>, 0, name, "AssertionError")
         ELSE IF IsNone(fs.npz[<<save_to, FileName(name)>>])
         THEN Raised("load_v_params_from_workspace", <<>>, 0, name, "IOError")
         ELSE IF ~(DOMAIN v_params \subseteq DOMAIN Val(fs.npz[<<save_to, FileName(name)>>]))
         THEN Raised("load_v_params_from_workspace", <<>>, 0, name, "KeyError")
         ELSE /\ v_params' = [ k \in DOMAIN v_params |->
                                 Val(fs.npz[<<save_to, FileName(name)>>])[k] ]
              /\ UNCHANGED << params, fs >>
              /\ Done("load_v_params_from_workspace", name, <<>>)

\* Net.remove_params_file_from_workspace
remove_params_file_from_workspace ==
    /\ Live
    /\ \E name \in NameArgs :
         IF ~AssertTraining
         THEN Raised("remove_params_file_from_workspace", <<>>, 0, name, "AssertionError")
         ELSE IF IsNone(fs.npz[<<save_to, FileName(name)>>])
         THEN Raised("remove_params_file_from_workspace", <<>>, 0, name, "OSError")
         ELSE /\ fs' = [fs EXCEPT !.npz[<<save_to, FileName(name)>>] = None]
              /\ UNCHANGED << params, v_params >>
              /\ Done("remove_params_file_from_workspace", name, <<>>)

\* Net.dimensions
dimensions ==
    /\ Live
    /\ UNCHANGED << params, v_params, fs >>
    /\ Done("dimensions", "", <<options["input_dim"], options["target_dim"]>>)

\* the parameter names a caller asks save_param for (un-prefixed) and the
\* file it names
ParamNameArgs == { Key("", FCOutput, "W"), Key("", FCOutput, "b") }
ExportFile == <<"run", "tmp">>

\* self._pfx + param_name
Prefixed(param_name) == [param_name EXCEPT !.pfx = pfx]

\* assert not self._is_training and self._pfx + param_name in self._params
AssertSaveParam(param_name) == ~is_training /\ Prefixed(param_name) \in DOMAIN params

\* variant: an export that keeps the instance prefix in the name
save_param_prefixed ==
    /\ Live
    /\ \E param_name \in ParamNameArgs :
         IF ~AssertSaveParam(param_name)
         THEN Raised("save_param", <<>>, 0, param_name, "AssertionError")
         ELSE /\ fs' = [fs EXCEPT !.npz[ExportFile] =
                            Some([ k \in {Prefixed(param_name)} |-> params[Prefixed(param_name)] ])]
              /\ UNCHANGED << params, v_params >>
              /\ Done("save_param", param_name, <<>>)

\* Net.save_param
save_param ==
    /\ Live
    /\ \E param_name \in ParamNameArgs :
         IF ~AssertSaveParam(param_name)
         THEN Raised("save_param", <<>>, 0, param_name, "AssertionError")
         ELSE /\ fs' = [fs EXCEPT !.npz[ExportFile] =
                            Some([ k \in {param_name} |-> params[Prefixed(param_name)] ])]
              /\ UNCHANGED << params, v_params >>
              /\ Done("save_param", param_name, <<>>)

\* ------------------------------------------------------------ properties
\* a step that is a call of op which returned
CalledOk(op) == ncalls' = ncalls + 1 /\ last'.op = op /\ last'.res = "ok"

NonZero(seq) == \E i \in DOMAIN seq : seq[i] # 0

\* C1: initialize_states resets every Previous-State Variable: to zeros of
\* its own shape when learn_init_states is disabled, to batch_size rows each
\* equal to the current value of the init Parameter of the same layer when it
\* is enabled; Parameters, Gradient Accumulators and Optimizer State keep
\* their values.
C1_InitializeStatesResets ==
    [][ CalledOk("initialize_states") =>
          /\ DOMAIN v_prev_states' = DOMAIN v_prev_states
          /\ \A k \in DOMAIN v_prev_states :
               IF ~options["learn_init_states"]
               THEN /\ Len(v_prev_states'[k]) = Len(v_prev_states[k])
                    /\ \A b \in 1..Len(v_prev_states'[k]) : v_prev_states'[k][b] = 0
               ELSE /\ Len(v_prev_states'[k]) = options["batch_size"]
                    /\ \A b \in 1..Len(v_prev_states'[k]) :
                         v_prev_states'[k][b] = v_params[Key(pfx, k.layer, "init")].v
          /\ UNCHANGED << v_params, v_grads, v_grads_for_init, v_optim >> ]_vars

\* C1 witness: on a fresh training start (init Parameters declared zero), a
\* reset called right after update_init_states has broadcast a non-zero value
C1_Witness ==
    /\ last.op = "initialize_states" /\ last.before = "update_init_states"
    /\ is_training /\ options["learn_init_states"] /\ ctor.load_from = NoPath
    /\ \E k \in DOMAIN v_prev_states : v_prev_states[k][1] # 0

\* C2: a fwd_bwd_propagate call leaves in every Gradient Accumulator the
\* gradient of that call alone (taken at the parameters and previous states
\* held before the call), whatever the accumulators held.
C2_GradsOverwritten ==
    [][ CalledOk("fwd_bwd_propagate") =>
          /\ Len(v_grads') = Len(WoInitKeys(options, pfx))
          /\ \A i \in DOMAIN v_grads' :
               v_grads'[i] = GradUpdates(Now(last'.inp), WoInitKeys(options, pfx))[i] ]_vars

\* C2 witness: a second fwd_bwd_propagate in a row, with no update in between
C2_Witness ==
    /\ last.op = "fwd_bwd_propagate" /\ last.res = "ok"
    /\ last.before = "fwd_bwd_propagate"
    /\ NonZero(v_grads)

\* C3: in training mode fwd_propagate returns the loss and changes only the
\* Previous-State Variables; fwd_bwd_propagate returns the same loss, writes
\* the same previous states and changes nothing else but the first
\* Gradient Accumulators; neither changes a Parameter.
C3_ForwardFrame ==
    [][ /\ (is_training /\ CalledOk("fwd_propagate")) =>
              /\ last'.ret = <<Loss(Now(last'.inp))>>
              /\ UNCHANGED << v_params, v_grads, v_grads_for_init, v_optim, params, fs >>
        /\ (is_training /\ CalledOk("fwd_bwd_propagate")) =>
              /\ last'.ret = <<Loss(Now(last'.inp))>>
              /\ v_prev_states' = PrevStateUpdates(Now(last'.inp), last'.inp.last_tap)
              /\ UNCHANGED << v_params, v_grads_for_init, v_optim, params, fs >> ]_vars

\* C3 witness: a validation pass right after a forward-backward pass, the
\* accumulators still holding its gradients
C3_Witness ==
    /\ is_training /\ last.op = "fwd_propagate" /\ last.res = "ok"
    /\ last.before = "fwd_bwd_propagate"
    /\ NonZero(v_grads)

\* C4: fwd_bwd_for_init has the effects of fwd_bwd_propagate (loss, first
\* accumulators, previous states) and also overwrites the second accumulators
\* with the gradients wrt the previous states held before the call;
\* fwd_propagate and fwd_bwd_propagate leave the second accumulators alone.
C4_ForInitExtends ==
    [][ /\ CalledOk("fwd_bwd_for_init") =>
              /\ last'.ret = <<Loss(Now(last'.inp))>>
              /\ v_grads' = fwd_bwd_propagate_updates(last'.inp).v_grads
              /\ v_prev_states' = fwd_bwd_propagate_updates(last'.inp).v_prev_states
              /\ UNCHANGED << v_params, v_optim >>
              /\ Len(v_grads_for_init') = Len(PrevKeys(options, pfx))
              /\ \A i \in DOMAIN v_grads_for_init' :
                   v_grads_for_init'[i] =
                       GradUpdatesForInit(Now(last'.inp), PrevKeys(options, pfx))[i]
        /\ (CalledOk("fwd_propagate") \/ CalledOk("fwd_bwd_propagate")) =>
              UNCHANGED v_grads_for_init ]_vars

\* C4 witness: fwd_bwd_for_init on the first chunk after a reset that
\* broadcast the loaded init Parameters, the second accumulators written
C4_Witness ==
    /\ last.op = "fwd_bwd_for_init" /\ last.res = "ok"
    /\ last.before = "initialize_states" /\ ctor.load_from = "old"
    /\ \E i \in DOMAIN v_grads_for_init : NonZero(v_grads_for_init[i])

\* C5: update_v_params changes no init Parameter and computes the others
\* from the first accumulators; update_init_states changes only init
\* Parameters and computes them from the batch means of the second
\* accumulators; neither changes a Previous-State Variable or an accumulator.
C5_SeparateInitPath ==
    [][ /\ CalledOk("update_v_params") =>
              /\ DOMAIN v_params' = DOMAIN v_params
              /\ \A k \in DOMAIN v_params : k.sfx = "init" => v_params'[k] = v_params[k]
              /\ \A i \in DOMAIN WoInitKeys(options, pfx) :
                   v_params'[WoInitKeys(options, pfx)[i]].v =
                       ParamUpdates(options, last'.lr, ValuesOf(WoInitKeys(options, pfx)),
                                    v_grads, v_optim.f, v_optim.u).p[i]
              /\ UNCHANGED << v_prev_states, v_grads, v_grads_for_init >>
        /\ CalledOk("update_init_states") =>
              /\ DOMAIN v_params' = DOMAIN v_params
              /\ \A k \in DOMAIN v_params : k.sfx # "init" => v_params'[k] = v_params[k]
              /\ \A i \in DOMAIN ForInitKeys(options, pfx) :
                   v_params'[ForInitKeys(options, pfx)[i]].v =
                       ParamUpdates(options, last'.lr, ValuesOf(ForInitKeys(options, pfx)),
                                    [ j \in DOMAIN v_grads_for_init |->
                                        MeanAxis0(v_grads_for_init[j]) ],
                                    v_optim.f_init, v_optim.u_init).p[i]
              /\ v_optim'.f = v_optim.f /\ v_optim'.u = v_optim.u
              /\ UNCHANGED << v_prev_states, v_grads, v_grads_for_init >> ]_vars

\* C5 witness: update_init_states has moved an init Parameter off its
\* declared zero while first and second accumulators differ
C5_Witness ==
    /\ last.op = "update_init_states" /\ last.res = "ok" /\ ctor.load_from = NoPath
    /\ \E k \in DOMAIN v_params : k.sfx = "init" /\ v_params[k].v # 0
    /\ \E i \in DOMAIN v_grads_for_init : MeanAxis0(v_grads_for_init[i]) # v_grads[i]

\* C6 (as claimed): after update_v_params returns every Gradient Accumulator
\* is zero.
C6_GradsZeroAfterUpdate ==
    (last.op = "update_v_params" /\ last.res = "ok") => \A i \in DOMAIN v_grads : v_grads[i] = 0

\* C6 (amended): update_v_params reads the Gradient Accumulators and writes
\* none of them: after it returns both sets hold what they held before the
\* call (the gradients of the last forward-backward call), so a second
\* update_v_params with no fwd_bwd_propagate in between reads the same
\* gradients again.
C6_UpdateKeepsGrads ==
    [][ CalledOk("update_v_params") =>
          /\ v_grads' = v_grads
          /\ v_grads_for_init' = v_grads_for_init ]_vars

\* C6 witness: a second update_v_params in a row, the accumulators non-zero
C6_Witness ==
    /\ last.op = "update_v_params" /\ last.res = "ok"
    /\ last.before = "update_v_params"
    /\ NonZero(v_grads)

\* the arguments of the constructor call were a resumed training start whose
\* Option Set differs from the one persisted under load_from
ResumeMismatch ==
    /\ ctor.save_to # NoPath /\ ctor.load_from # NoPath
    /\ ~IsNone(ctor.options)
    /\ ~IsNone(fs.options[ctor.load_from])
    /\ Val(ctor.options) # Val(fs.options[ctor.load_from])

\* C7: a training start resumed with an Option Set that differs from the
\* persisted one fails before the parameter archive is read and before any
\* shared variable or graph is built.
C7_MismatchFailsEarly ==
    ResumeMismatch =>
        /\ status = "failed"
        /\ \A i \in DOMAIN events : events[i] \notin {"read_archive", "instantiate", "shared", "graph"}

\* C7 witness: such a start, failed right after reading the persisted options
C7_Witness ==
    ResumeMismatch /\ status = "failed" /\ ctor.err = "AssertionError"
        /\ events = <<"read_options">>

TrainingOnlyOps ==
    { "fwd_bwd_propagate", "update_v_params", "fwd_bwd_for_init", "update_init_states",
      "initialize_optimizer", "save_v_params_to_workspace", "load_v_params_from_workspace",
      "remove_params_file_from_workspace" }

\* op is requested in a mode that does not allow it
ModeViolation(op) ==
    \/ ~is_training /\ op \in TrainingOnlyOps
    \/ is_training /\ op = "save_param"
    \/ is_training /\ ~options["learn_init_states"]
         /\ op \in {"fwd_bwd_for_init", "update_init_states"}

\* C8: a mode violation fails with an assertion error and changes nothing
\* (no shared variable, no host copy, no file).
C8_ModeViolationFailsFast ==
    [][ (ncalls' = ncalls + 1 /\ ModeViolation(last'.op)) =>
          /\ last'.res = "AssertionError"
          /\ UNCHANGED << status, is_training, options, save_to, pfx, params, v_params,
                          v_prev_states, v_grads, v_grads_for_init, v_optim, fs >> ]_vars

\* C8 witness: fwd_bwd_for_init requested in training mode without
\* learn_init_states
C8_Witness ==
    /\ is_training /\ ~options["learn_init_states"]
    /\ last.op = "fwd_bwd_for_init" /\ last.res = "AssertionError"

\* C9 (as claimed): compiling a forward function never raises because the
\* time port or the identity-index port is declared but not consumed.
C9_UnusedPortsTolerated ==
    last.op \in {"fwd_propagate", "fwd_bwd_propagate", "fwd_bwd_for_init"}
        => last.res # "UnusedInputError"

\* the archive read at construction lacks a declared key or holds an array
\* of another shape than declared
ArchiveDefect ==
    /\ \E i \in DOMAIN events : events[i] = "read_archive"
    /\ LET o == Val(fs.options[ctor.load_from])
           archive == Val(fs.npz[<<ctor.load_from, "params">>])
       IN  \E k \in Range(DeclaredKeys(o, "")) :
               \/ k \notin DOMAIN archive
               \/ archive[k].shape # DeclaredShape(o, k)

\* C10 (as claimed): construction from an archive that lacks a declared key
\* or holds an array of another shape fails; no instance results.
C10_LoadAllOrFatal == ArchiveDefect => status = "failed"


\* the snapshot file a name argument designates
SnapFile(name) == <<save_to, IF name = NoName THEN "params" ELSE name>>

\* C11: save_v_params_to_workspace(name) leaves in the file of that name
\* (of 'params' when name is None) the value of every Parameter, init ones
\* included, and leaves every other file alone; the forward-backward and
\* update calls leave the files alone; load_v_params_from_workspace(name)
\* sets every Parameter to the value held in the file of that name. So a
\* load returns every Parameter to its value at the time of the save.
C11_SnapshotRoundTrip ==
    [][ /\ CalledOk("save_v_params_to_workspace") =>
              /\ ~IsNone(fs'.npz[SnapFile(last'.name)])
              /\ \A k \in DOMAIN v_params :
                   Val(fs'.npz[SnapFile(last'.name)])[k] = v_params[k]
              /\ \A g \in DOMAIN fs.npz : g # SnapFile(last'.name) => fs'.npz[g] = fs.npz[g]
              /\ v_params' = v_params
        /\ (\/ CalledOk("fwd_bwd_propagate") \/ CalledOk("fwd_bwd_for_init")
            \/ CalledOk("update_v_params") \/ CalledOk("update_init_states")) =>
              fs' = fs
        /\ CalledOk("load_v_params_from_workspace") =>
              /\ fs' = fs
              /\ DOMAIN v_params' = DOMAIN v_params
              /\ \A k \in DOMAIN v_params :
                   v_params'[k] = Val(fs.npz[SnapFile(last'.name)])[k] ]_vars

\* C11 witness: a snapshot saved, a gradient computed and applied, and the
\* snapshot loaded back: the Parameters equal the host copies the save pulled
C11_Witness ==
    /\ last.op = "load_v_params_from_workspace" /\ last.res = "ok"
    /\ last.before = "update_v_params"
    /\ NonZero(v_grads)
    /\ \A k \in DOMAIN v_params : v_params[k] = params[k]
    /\ \E k \in DOMAIN v_params : k.sfx = "init"

\* the archive an inference construction loaded
LoadedArchive == Val(fs.npz[<<ctor.load_from, "params">>])

\* C12: in inference mode every Parameter (shared value and host copy) equals
\* the value loaded at construction whatever has been called, and a
\* save_param that returned has exported the loaded value of the named
\* Parameter under the un-prefixed name.
C12_InferenceParamsFixed ==
    (status = "ok" /\ ~is_training) =>
        /\ \A k \in DOMAIN v_params :
             /\ v_params[k] = LoadedArchive[[k EXCEPT !.pfx = ""]]
             /\ params[k] = LoadedArchive[[k EXCEPT !.pfx = ""]]
        /\ (last.op = "save_param" /\ last.res = "ok") =>
             /\ ~IsNone(fs.npz[ExportFile])
             /\ DOMAIN Val(fs.npz[ExportFile]) = {last.name}
             /\ last.name.pfx = ""
             /\ Val(fs.npz[ExportFile])[last.name] = LoadedArchive[last.name]

\* C12 witness: an export made after a reset and a forward call that moved
\* the previous states
C12_Witness ==
    /\ status = "ok" /\ ~is_training /\ pfx # ""
    /\ last.op = "save_param" /\ last.res = "ok" /\ last.before = "fwd_propagate"
    /\ \E k \in DOMAIN v_prev_states : NonZero(v_prev_states[k])

C14_OnlyBatchSizeOverridden ==
    (status = "ok" /\ ~is_training) =>
        /\ DOMAIN options = DOMAIN Val(fs.options[ctor.load_from]) \cup {"batch_size"}
        /\ options["batch_size"] = Val(ctor.options)["batch_size"]
        /\ \A k \in DOMAIN options \ {"batch_size"} :
             options[k] = Val(fs.options[ctor.load_from])[k]
        /\ \A i \in DOMAIN events : events[i] # "write_options"
        /\ \A p \in DOMAIN fs.options : p # ctor.load_from => IsNone(fs.options[p])

\* C14 witness: the caller gave a batch size and a depth that both differ
\* from the persisted ones; only the batch size was taken
C14_Witness ==
    /\ status = "ok" /\ ~is_training
    /\ "net_depth" \in DOMAIN Val(ctor.options)
    /\ Val(ctor.options)["net_depth"] # options["net_depth"]
    /\ options["batch_size"] = 1
    /\ Val(fs.options[ctor.load_from])["batch_size"] = 2

\* C15: initialize_optimizer sets all Optimizer State, that of the
\* init-state path included, to the values construction gave it (called
\* right after construction it changes nothing) and leaves Parameters,
\* Gradient Accumulators and Previous-State Variables alone; a second call in
\* a row changes nothing.
C15_OptimizerReset ==
    [][ CalledOk("initialize_optimizer") =>
          /\ v_optim' = OptimStateInits(options, pfx)
          /\ UNCHANGED << v_params, v_grads, v_grads_for_init, v_prev_states, params, fs >>
          /\ ncalls = 0 => v_optim' = v_optim
          /\ (last.op = "initialize_optimizer" /\ last.res = "ok") => v_optim' = v_optim ]_vars

\* C15 witness: a reset after update_init_states has fed a non-zero mean
\* gradient into the stateful plugins of the init-state path
C15_Witness ==
    /\ last.op = "initialize_optimizer" /\ last.res = "ok"
    /\ last.before = "update_init_states"
    /\ options["learn_init_states"] /\ options["force_type"] # "vanilla"
    /\ Len(v_optim.f_init) > 0
    /\ \E i \in DOMAIN v_grads_for_init : MeanAxis0(v_grads_for_init[i]) # 0

\* C16: two inference instances of one process have distinct prefixes, so
\* no Parameter or Previous-State Variable of one bears the name of one of
\* the other, and a call on one instance leaves the Parameters (shared values
\* and host copies) and the Previous-State Variables of the other unchanged.
C16_InstancesIsolated ==
    [][ peer # NoPeer =>
          /\ pfx # peer.pfx
          /\ DOMAIN v_params \cap DOMAIN peer.v_params = {}
          /\ DOMAIN v_prev_states \cap DOMAIN peer.v_prev_states = {}
          /\ ncalls' = ncalls + 1 =>
                /\ peer'.pfx = peer.pfx
                /\ peer'.v_params = peer.v_params
                /\ peer'.params = peer.params
                /\ peer'.v_prev_states = peer.v_prev_states ]_vars

\* C16 witness: a forward call has moved the previous states of each of
\* the two instances
C16_Witness ==
    /\ peer # NoPeer
    /\ last.op = "fwd_propagate" /\ last.res = "ok" /\ last.before = "fwd_propagate"
    /\ \E k \in DOMAIN v_prev_states : NonZero(v_prev_states[k])
    /\ \E k \in DOMAIN peer.v_prev_states : NonZero(peer.v_prev_states[k])

\* the steps of construction that make parameters, shared variables or graphs
BuildEvents == {"instantiate", "read_archive", "shared", "graph"}

\* C17: on a training start the options file under save_to is written
\* before any parameter is instantiated or loaded and before any shared
\* variable or graph is built (also when construction fails later), and, on
\* a resume, only after the persisted options were read and found equal.
C17_OptionsWrittenFirst ==
    ctor.save_to # NoPath =>
        /\ \A i, j \in DOMAIN events :
             (events[i] = "write_options" /\ events[j] \in BuildEvents) => i < j
        /\ (\E j \in DOMAIN events : events[j] \in BuildEvents) =>
             /\ \E i \in DOMAIN events : events[i] = "write_options"
             /\ fs.options[ctor.save_to] = ctor.options
        /\ (\E i \in DOMAIN events : events[i] = "write_options") =>
             (ctor.load_from # NoPath =>
                 /\ events[1] = "read_options" /\ events[2] = "write_options"
                 /\ fs.options[ctor.load_from] = ctor.options)
        /\ (\A i \in DOMAIN events : events[i] # "write_options") =>
             IsNone(fs.options[ctor.save_to])

\* C17 witness: a resume that passed the options check, wrote the options
\* and then failed on the parameter archive
C17_Witness ==
    /\ ctor.save_to = "run" /\ ctor.load_from = "old"
    /\ status = "failed" /\ ctor.err = "KeyError"
    /\ events = <<"read_options", "write_options", "instantiate", "read_archive">>
    /\ fs.options["run"] = ctor.options

\* the columns x with d added at every step before tap
Warmup(x, tap, d) ==
    [ b \in DOMAIN x |-> [ t \in DOMAIN x[b] |-> IF t <= tap THEN x[b][t] + d ELSE x[b][t] ] ]

Perturbations == (0 - 1)..1

\* a chunk with d added to the input at every step before its loss_tap
WarmupInput(inp, d) ==
    [ inp EXCEPT !.input = [ t \in DOMAIN @ |->
        [ b \in DOMAIN @[t] |-> IF t <= inp.loss_tap THEN @[t][b] + d ELSE @[t][b] ] ] ]

\* C18: in training mode the loss is the same for any two (output, target)
\* pairs over the same time axis that agree at every step from loss_tap on,
\* and the state-feedback values captured at last_tap do not depend on
\* loss_tap: they come from the recurrence run over every step of the chunk.
\* Stated of the chunk of every successful forward call, on the shared
\* variables the call left.
C18_LossFromTapOn ==
    (status = "ok" /\ is_training /\ last.res = "ok"
        /\ last.op \in {"fwd_propagate", "fwd_bwd_propagate", "fwd_bwd_for_init"}) =>
        LET c     == Now(last.inp)
            outs  == OutputColumns(c)
            tgts  == TargetColumns(c)
            taken == PrevStateUpdates(c, last.inp.last_tap)
        IN  \A tap \in 0..(ChunkLen(last.inp) - 1) :
                /\ \A d1, d2 \in Perturbations :
                       SetupLossGraph(Warmup(outs, tap, d1), Warmup(tgts, tap, d2), tap)
                           = SetupLossGraph(outs, tgts, tap)
                /\ tap # last.inp.loss_tap =>
                       PrevStateUpdates(Now([last.inp EXCEPT !.loss_tap = tap]), last.inp.last_tap)
                           = taken

\* a training forward call on a chunk with warm-up steps, in a state where the
\* warm-up steps carry an error the loss leaves out and where they change the
\* state captured at last_tap
C18_Witness ==
    /\ status = "ok" /\ is_training
    /\ last.op = "fwd_propagate" /\ last.res = "ok" /\ last.inp.loss_tap > 0
    /\ LET c == Now(last.inp) IN
        /\ SetupLossGraph(OutputColumns(c), TargetColumns(c), 0) # Loss(c)
        /\ PrevStateUpdates(Now(WarmupInput(last.inp, 1)), last.inp.last_tap)
               # PrevStateUpdates(c, last.inp.last_tap)

ForwardOps == {"fwd_propagate", "fwd_bwd_propagate", "fwd_bwd_for_init"}

\* the forward context of a call made right after initialize_states
FromReset(inp) == Ctx(options, pfx, PV, initialize_states_updates.v_prev_states, inp)

\* the sequence of L steps that starts with the chunk inp, and what follows
\* the chunk in it
Sequence(inp, L) == Chunk(Len(inp.id_idx), L, L - 1, 0)
Starts(inp, whole) ==
    /\ \A t \in 1..ChunkLen(inp) : whole.input[t] = inp.input[t] /\ whole.time[t] = inp.time[t]
    /\ whole.id_idx = inp.id_idx
Rest(inp, whole) ==
    [ whole EXCEPT !.input    = SliceFrom(whole.input, ChunkLen(inp)),
                   !.target   = SliceFrom(whole.target, ChunkLen(inp)),
                   !.time     = SliceFrom(whole.time, ChunkLen(inp)),
                   !.last_tap = ChunkLen(whole) - ChunkLen(inp) - 1 ]

\* C19: a forward call leaves one state-feedback value per stateful layer,
\* taken at the tap index (last_tap in training, the last step of the chunk
\* in inference); and in inference, after initialize_states and a forward
\* call on the first chunk of a sequence, a forward call on the rest of the
\* sequence gives the outputs and the final Previous-State Variables of one
\* forward call on the whole sequence after initialize_states. Outputs are
\* compared as stored values.
C19_ChunkedEqualsWhole ==
    (status = "ok" /\ last.res = "ok" /\ last.op \in ForwardOps
        /\ last.before = "initialize_states") =>
        /\ Cardinality(DOMAIN v_prev_states) = options["net_depth"]
        /\ v_prev_states =
              PrevStateUpdates(FromReset(last.inp),
                               IF is_training THEN last.inp.last_tap
                               ELSE ChunkLen(last.inp) - 1)
        /\ ~is_training =>
              \A L \in (ChunkLen(last.inp) + 1)..(ChunkLen(last.inp) + MaxT) :
                  LET whole  == Sequence(last.inp, L)
                      rest   == Rest(last.inp, whole)
                      once   == FromReset(whole)
                      first  == ChunkLen(last.inp)
                      second == ForwardOutput(Now(rest))
                      all    == ForwardOutput(once)
                  IN  /\ Starts(last.inp, whole)
                      /\ \A t \in 1..L : \A b \in BatchOf(once) :
                             Store(all[t][b]) =
                                 Store(IF t <= first THEN last.ret[t][b] ELSE second[t - first][b])
                      /\ PrevStateUpdates(Now(rest), ChunkLen(rest) - 1)
                             = PrevStateUpdates(once, L - 1)

\* an inference forward call on a chunk of several steps right after
\* initialize_states, leaving a non-zero state
C19_Witness ==
    /\ status = "ok" /\ ~is_training
    /\ last.op = "fwd_propagate" /\ last.res = "ok" /\ last.before = "initialize_states"
    /\ ChunkLen(last.inp) = MaxT
    /\ \E k \in DOMAIN v_prev_states : NonZero(v_prev_states[k])
    /\ \E t \in DOMAIN last.ret : NonZero(last.ret[t])
    /\ v_prev_states # PrevStateUpdates(FromReset(last.inp), 0)

AllZero(seq) == \A i \in DOMAIN seq : seq[i] = 0

\* one first-set accumulator per Parameter whose name does not end in 'init'
\* and, with learn_init_states, one second-set accumulator per
\* Previous-State Variable, of that variable's shape
AccumulatorsAligned ==
    /\ Len(v_grads) = Cardinality({ k \in DOMAIN v_params : ~IsInitKey(k) })
    /\ Len(v_grads_for_init) =
          IF options["learn_init_states"] THEN Cardinality(DOMAIN v_prev_states) ELSE 0
    /\ \A i \in DOMAIN v_grads_for_init :
          DOMAIN v_grads_for_init[i] = DOMAIN v_prev_states[PrevKeys(options, pfx)[i]]

\* C20 as stated: the first-set accumulators are all-zero until the first
\* fwd_bwd_propagate call, whatever is invoked before it; here, after one
\* call that is not fwd_bwd_propagate.
C20_FirstSetZeroUntilFwdBwd ==
    (status = "ok" /\ is_training /\ ncalls = 1 /\ last.op # "fwd_bwd_propagate") =>
        AllZero(v_grads)

\* C20 (amended): in training mode the accumulators are aligned with the
\* non-init Parameters and the Previous-State Variables and are all-zero at
\* construction; the first set is written by no operation but a successful
\* fwd_bwd_propagate or fwd_bwd_for_init, the second set by none but a
\* successful fwd_bwd_for_init, so each stays all-zero until the first such
\* call whatever is invoked before it.
C20_ZeroUntilFirstBackward ==
    /\ []((status = "ok" /\ is_training) =>
              /\ AccumulatorsAligned
              /\ ncalls = 0 =>
                    /\ AllZero(v_grads)
                    /\ \A i \in DOMAIN v_grads_for_init : AllZero(v_grads_for_init[i]))
    /\ [][ /\ v_grads' # v_grads =>
                 (last'.res = "ok" /\ last'.op \in {"fwd_bwd_propagate", "fwd_bwd_for_init"})
           /\ v_grads_for_init' # v_grads_for_init =>
                 (last'.res = "ok" /\ last'.op = "fwd_bwd_for_init") ]_vars

\* the first backward call of an object, made after another operation: both
\* sets were all-zero until it and hold gradients after it
C20_Witness ==
    /\ status = "ok" /\ is_training /\ options["learn_init_states"]
    /\ ncalls = 2 /\ last.before = "fwd_propagate"
    /\ last.op = "fwd_bwd_for_init" /\ last.res = "ok"
    /\ AccumulatorsAligned
    /\ NonZero(v_grads)
    /\ \E i \in DOMAIN v_grads_for_init : NonZero(v_grads_for_init[i])

\* ------------------------------------------------------------ specification
Next ==
    \/ f_initialize_states
    \/ f_fwd_propagate
    \/ f_fwd_bwd_propagate
    \/ f_update_v_params
    \/ f_fwd_bwd_for_init
    \/ f_update_init_states
    \/ f_initialize_optimizer
    \/ save_v_params_to_workspace
    \/ load_v_params_from_workspace
    \/ remove_params_file_from_workspace
    \/ dimensions
    \/ save_param

Spec == Init /\ [][Next]_vars

\* --------------------------------------------------- ensemble specification
\* Two inference instances constructed one after the other in one process
\* from the files of the same old run. The variables hold the instance the
\* caller is using; peer holds the fields of the other one.
\* get_random_string(): a string the process has not been given before
GetRandomString(used) == Prefixes \ used

\* the fields of an instance that its compiled functions read or write
InstanceOf(c) ==
    [ pfx |-> c.pfx, options |-> c.options, params |-> c.params, v_params |-> c.v_params,
      v_prev_states |-> c.v_prev_states ]

EnsembleOptions == { FlagOptions(FALSE, FALSE, FALSE), FlagOptions(TRUE, TRUE, TRUE) }

EnsembleInit ==
    \E o \in EnsembleOptions, n1 \in {1, 2}, n2 \in {1, 2} :
      \E r1 \in GetRandomString({}) :
        \E r2 \in GetRandomString({r1}) :
          /\ peer = InstanceOf(Construct(OldRun(o, Some(GoodArchive(o))),
                                         Some([batch_size |-> n1]), NoPath, "old", r1))
          /\ Constructed(Construct(OldRun(o, Some(GoodArchive(o))),
                                   Some([batch_size |-> n2]), NoPath, "old", r2),
                         Some([batch_size |-> n2]), NoPath, "old")
          /\ budget = MaxCalls

\* the caller turns to the other instance
use_other_instance ==
    /\ status = "ok" /\ peer # NoPeer
    /\ pfx' = peer.pfx
    /\ options' = peer.options
    /\ params' = peer.params
    /\ v_params' = peer.v_params
    /\ v_prev_states' = peer.v_prev_states
    /\ peer' = [ pfx |-> pfx, options |-> options, params |-> params, v_params |-> v_params,
                 v_prev_states |-> v_prev_states ]
    /\ UNCHANGED << status, ctor, events, is_training, save_to, v_grads, v_grads_for_init,
                    v_optim, fs, last, ncalls, budget >>

EnsembleNext ==
    \/ f_initialize_states
    \/ f_fwd_propagate
    \/ use_other_instance

EnsembleSpec == EnsembleInit /\ [][EnsembleNext]_vars

\* ------------------------------------------------- annealing specification
\* One fresh training object with learnable init states and stateful
\* optimizer plugins, on which the calls of an annealing experiment are
\* explored one call deeper: snapshots are saved and reloaded between
\* forward-backward passes and parameter updates.
AnnealInit ==
    /\ Constructed(Construct(EmptyFs, Some(StatefulOptions), "run", NoPath, "r1_"),
                   Some(StatefulOptions), "run", NoPath)
    /\ budget = MaxAnnealCalls
    /\ peer = NoPeer

AnnealNext ==
    \/ f_fwd_bwd_propagate
    \/ f_fwd_bwd_for_init
    \/ f_update_v_params
    \/ f_update_init_states
    \/ save_v_params_to_workspace
    \/ load_v_params_from_workspace

AnnealSpec == AnnealInit /\ [][AnnealNext]_vars

====
